---- MODULE Spec2Model ----
(***************************************************************************)
(* Model of the multi-http-provider Traefik plugin.                        *)
(*                                                                         *)
(* The repository holds two variants of the same provider:                 *)
(*   policy "A"  src/provider.go        entry-point filtering              *)
(*   policy "B"  src/unnamed/part_000   middleware namespace rewriting     *)
(* The variable `policy` says which variant a behaviour is about.          *)
(*                                                                         *)
(* Strings that the code searches in (middleware references) are           *)
(* sequences of tokens; the tokens are chosen so that the text "@http"     *)
(* occurs in a string exactly where the tokens "@","http" are adjacent.    *)
(***************************************************************************)
EXTENDS Integers, Sequences, FiniteSets, TLC

VARIABLES
    policy,        \* "A" or "B": which variant of the provider is built
    pollInterval,  \* Provider.pollInterval
    pollTimeout,   \* Provider.pollTimeout
    endpoints,     \* Provider.endpoints (the node names)
    entrypoints,   \* Provider.entrypoints (policy A only)
    cancel,        \* Provider.cancel: 0 is nil, n > 0 cancels context n
    initResult,    \* what Init returned, "none" before it is called
    stopResult,    \* what the last Stop did: "none", "ok" or "panic"
    stops,         \* number of Stop calls made
    crashed,       \* an unrecovered panic ended the process
    ctxDone,       \* the contexts that have been cancelled
    drivers,       \* the goroutines started by Provide, by context id
    xf,            \* a run of the policy A transform on one fragment
    mg,            \* a run of mergeConfig on a map of fragments
    rw,            \* a run of the policy B rewrite on one reference
    mj             \* a run of ConfigMarshaler.MarshalJSON on one value

vars == <<policy, pollInterval, pollTimeout, endpoints, entrypoints, cancel,
          initResult, stopResult, stops, crashed, ctxDone, drivers, xf, mg, rw,
          mj>>

providerVars == <<policy, pollInterval, pollTimeout, endpoints, entrypoints>>
hostVars == <<cancel, initResult, stopResult, stops, crashed, ctxDone>>
pureVars == <<xf, mg, rw, mj>>

----------------------------------------------------------------------------
(* Bounds *)

MaxProvides == 2      \* Provide calls in one behaviour
MaxStops == 2         \* Stop calls in one behaviour
MaxMiddlewareRefs == 1 \* middleware references one router carries
MaxFragments == 2     \* fragments handed to one mergeConfig call
MaxRefTokens == 5     \* tokens in one middleware reference

----------------------------------------------------------------------------
(* Go maps as functions with a finite domain *)

EmptyMap == [x \in {} |-> {}]

MapPut(m, k, v) == [x \in DOMAIN m \cup {k} |-> IF x = k THEN v ELSE m[x]]

MapWithout(m, ks) == [x \in DOMAIN m \ ks |-> m[x]]

MapValues(m) == {m[x] : x \in DOMAIN m}

SeqToSet(s) == {s[i] : i \in DOMAIN s}

Perms(S) == {s \in [1..Cardinality(S) -> S] : \A i, j \in DOMAIN s : s[i] = s[j] => i = j}

----------------------------------------------------------------------------
(* Strings *)

HttpTag == <<"@", "http">>

PluginTag == <<"@", "plugin-multi-", "http", "-provider">>

\* strings.Index: the first position where pat occurs in s, 0 when it does not
Index(s, pat) ==
    LET hits == {i \in 1..(Len(s) - Len(pat) + 1) : SubSeq(s, i, i + Len(pat) - 1) = pat}
    IN IF hits = {} THEN 0 ELSE CHOOSE i \in hits : \A j \in hits : i <= j

\* strings.Replace(s, old, new, 1)
ReplaceFirst(s, old, new) ==
    LET i == Index(s, old)
    IN IF i = 0 THEN s
       ELSE SubSeq(s, 1, i - 1) \o new \o SubSeq(s, i + Len(old), Len(s))

\* the rewrite policy B applies to one middleware reference
RewriteRef(m) == ReplaceFirst(m, HttpTag, PluginTag)

----------------------------------------------------------------------------
(* dynamic.Configuration: hasHTTP is FALSE when the HTTP pointer is nil *)

NilHTTP == [hasHTTP |-> FALSE, routers |-> EmptyMap, services |-> EmptyMap,
            middlewares |-> EmptyMap]

MkConfig(rs, ss, ms) == [hasHTTP |-> TRUE, routers |-> rs, services |-> ss,
                         middlewares |-> ms]

MkRouter(eps, svc, mws, rule) == [entryPoints |-> eps, service |-> svc,
                                 middlewares |-> mws, rule |-> rule]

----------------------------------------------------------------------------
(* Policy A: the transform of one decoded fragment *)

\* the filter without the assignment of its result to the router
FilterEntryPoints_KeepsAll(eps, recognized) ==
    IF \E i \in DOMAIN eps : eps[i] \in recognized THEN eps ELSE <<>>

\* the filter with its loop starting at the second entry point
FilterEntryPoints_SkipsFirst(eps, recognized) ==
    IF eps = <<>> THEN <<>> ELSE SelectSeq(Tail(eps), LAMBDA e : e \in recognized)

FilterEntryPoints(eps, recognized) == SelectSeq(eps, LAMBDA e : e \in recognized)

\* the state of the transform before the first router is visited
TransformStart(config) == [config |-> config, toDelete |-> EmptyMap,
                           toDeleteMiddlewares |-> EmptyMap]

\* the loop pass marking every referenced middleware, marked before or not
VisitRouter_MarksAgain(st, k, recognized) ==
    LET v == st.config.routers[k]
        eps == FilterEntryPoints(v.entryPoints, recognized)
        refs == SeqToSet(v.middlewares)
        old == st.toDeleteMiddlewares
        seen == [m \in DOMAIN old \cup refs |-> IF m \in refs THEN TRUE ELSE old[m]]
        kept == [m \in DOMAIN seen |-> IF m \in refs THEN FALSE ELSE seen[m]]
    IN [config |-> [st.config EXCEPT !.routers[k].entryPoints = eps],
        toDelete |-> IF Len(eps) = 0 THEN MapPut(st.toDelete, k, v.service)
                     ELSE st.toDelete,
        toDeleteMiddlewares |-> IF Len(eps) = 0 THEN seen ELSE kept]

\* one pass of the loop over config.HTTP.Routers, for router k: the entry
\* points are filtered, a middleware seen for the first time is marked for
\* deletion, and then either the router is marked with its service or the
\* marks of its middlewares are cleared
VisitRouter(st, k, recognized) ==
    LET v == st.config.routers[k]
        eps == FilterEntryPoints(v.entryPoints, recognized)
        refs == SeqToSet(v.middlewares)
        old == st.toDeleteMiddlewares
        seen == [m \in DOMAIN old \cup refs |-> IF m \in DOMAIN old THEN old[m] ELSE TRUE]
        kept == [m \in DOMAIN seen |-> IF m \in refs THEN FALSE ELSE seen[m]]
    IN [config |-> [st.config EXCEPT !.routers[k].entryPoints = eps],
        toDelete |-> IF Len(eps) = 0 THEN MapPut(st.toDelete, k, v.service)
                     ELSE st.toDelete,
        toDeleteMiddlewares |-> IF Len(eps) = 0 THEN seen ELSE kept]

RECURSIVE VisitRouters(_, _, _)
VisitRouters(st, order, recognized) ==
    IF order = <<>> THEN st
    ELSE VisitRouters(VisitRouter(st, Head(order), recognized), Tail(order), recognized)

\* the two deletion loops that follow the loop over the routers
DeleteMarked(st) ==
    LET gone == {m \in DOMAIN st.toDeleteMiddlewares : st.toDeleteMiddlewares[m]}
    IN [st.config EXCEPT
          !.routers = MapWithout(@, DOMAIN st.toDelete),
          !.services = MapWithout(@, MapValues(st.toDelete)),
          !.middlewares = MapWithout(@, gone)]

\* the whole transform, the routers visited in the given order
PolicyA(config, recognized, order) ==
    DeleteMarked(VisitRouters(TransformStart(config), order, recognized))

----------------------------------------------------------------------------
(* Policy B: the rewrite of every router's middleware references *)

RewriteRouter(v) ==
    [v EXCEPT !.middlewares = [i \in DOMAIN v.middlewares |-> RewriteRef(v.middlewares[i])]]

PolicyB(config) ==
    [config EXCEPT !.routers = [k \in DOMAIN config.routers |-> RewriteRouter(config.routers[k])]]

----------------------------------------------------------------------------
(* mergeConfig *)

\* the three loops without the test for a name already present
MergeOne_LastWriterWins(newConfig, c) ==
    LET put(acc, m) == [x \in DOMAIN acc \cup DOMAIN m |->
                           IF x \in DOMAIN m THEN m[x] ELSE acc[x]]
    IN [newConfig EXCEPT
          !.middlewares = put(@, c.middlewares),
          !.services = put(@, c.services),
          !.routers = put(@, c.routers)]

\* the three loops of mergeConfig for one fragment c: a name already in
\* newConfig is left alone
MergeOne(newConfig, c) ==
    LET keep(acc, m) == [x \in DOMAIN acc \cup DOMAIN m |->
                            IF x \in DOMAIN acc THEN acc[x] ELSE m[x]]
    IN [newConfig EXCEPT
          !.middlewares = keep(@, c.middlewares),
          !.services = keep(@, c.services),
          !.routers = keep(@, c.routers)]

\* newConfig built without its HTTP section
EmptyConfig_NilHTTP == NilHTTP

\* newConfig as mergeConfig builds it before its loop: an HTTP section with
\* three maps, allocated and empty
EmptyConfig == MkConfig(EmptyMap, EmptyMap, EmptyMap)

RECURSIVE MergeFrom(_, _, _)
MergeFrom(newConfig, configs, order) ==
    IF order = <<>> THEN newConfig
    ELSE MergeFrom(MergeOne(newConfig, configs[Head(order)]), configs, Tail(order))

\* mergeConfig, the map of fragments iterated in the given order
mergeConfig(configs, order) == MergeFrom(EmptyConfig, configs, order)

----------------------------------------------------------------------------
(* The static configuration New accepts and what the nodes may answer *)

Nodes == {"n1", "n2"}

Durations == {0, 1}

RecognizedSets == {{}, {"web"}}

EndpointSets == {{}, {"n1"}}

Auth == <<"auth">>

AuthHttp == <<"auth", "@", "http">>

\* Config.Endpoints as New copies it into Provider.endpoints: the address
\* of each node and the headers configured for it, if any
Address(node) == IF node = "n1" THEN "10.0.0.1" ELSE "10.0.0.2"

Headers(node) ==
    IF node = "n1" THEN [h \in {"Authorization"} |-> "Bearer token"] ELSE EmptyMap

\* the request http.Get builds from the URL alone: a GET that carries no
\* header of the caller's
HttpGet(node) ==
    [method |-> "GET",
     url |-> <<"http://", Address(node), ":5000/traefik/config">>,
     headers |-> EmptyMap]

\* the document each node serves when it serves a well-formed one
NodeConfig(node) ==
    IF node = "n1"
    THEN MkConfig([r \in {"r1"} |-> MkRouter(<<"web", "websecure">>, "s1", <<AuthHttp>>, "n1")],
                  [s \in {"s1"} |-> "n1"],
                  [m \in {Auth} |-> "n1"])
    ELSE MkConfig([r \in {"r1", "r2"} |->
                      IF r = "r1" THEN MkRouter(<<"internal">>, "s2", <<Auth>>, "n2")
                      ELSE MkRouter(<<"web">>, "s1", <<>>, "n2")],
                  [s \in {"s1", "s2"} |-> "n2"],
                  [m \in {Auth} |-> "n2"])

\* the outcomes of http.Get, io.ReadAll and json.Unmarshal for one node, with
\* the status of the response (0 when there is none) and the value the
\* variable config then holds: nothing after a failed request or read, the
\* part decoded so far after a decode error, and after a successful decode a
\* document with or without an HTTP section. http.Get returns no error for
\* a response with an error status.
Responses(node) ==
    {[kind |-> "connErr", status |-> 0, config |-> NilHTTP],
     [kind |-> "readErr", status |-> 200, config |-> NilHTTP],
     [kind |-> "decodeErr", status |-> 200, config |-> NodeConfig(node)],
     [kind |-> "ok", status |-> 200, config |-> NodeConfig(node)],
     [kind |-> "ok", status |-> 500, config |-> NodeConfig(node)],
     [kind |-> "ok", status |-> 200, config |-> NilHTTP]}

----------------------------------------------------------------------------
(* Provider.Init *)

\* Init without the check of the entry points
InitCheck_NoEntryPointCheck(pol, pi, pt, eps, entry) ==
    IF pi <= 0 THEN "poll interval must be greater than 0"
    ELSE IF pt <= 0 THEN "poll timeout must be greater than 0"
    ELSE IF Cardinality(eps) <= 0 THEN "must provide at least 1 endpoint"
    ELSE "ok"

InitCheck(pol, pi, pt, eps, entry) ==
    IF pi <= 0 THEN "poll interval must be greater than 0"
    ELSE IF pt <= 0 THEN "poll timeout must be greater than 0"
    ELSE IF Cardinality(eps) <= 0 THEN "must provide at least 1 endpoint"
    ELSE IF pol = "A" /\ Cardinality(entry) <= 0 THEN "must specify at least one entrypoint"
    ELSE "ok"

InitCall ==
    /\ ~crashed
    /\ initResult' = InitCheck(policy, pollInterval, pollTimeout, endpoints, entrypoints)
    /\ UNCHANGED <<providerVars, cancel, stopResult, stops, crashed, ctxDone, drivers, pureVars>>

----------------------------------------------------------------------------
(* Provider.Provide and the goroutine it starts *)

\* sent holds the requests of the cycle in progress, by node; last is what
\* became of the latest cycle of the driver: "none" before the
\* first, "running", "emitted" once the sink has the payload, "aborted"
NewDriver == [pc |-> "start", ticker |-> "none", tick |-> FALSE,
              todo |-> {}, resp |-> EmptyMap, sent |-> EmptyMap,
              configs |-> EmptyMap, payload |-> <<>>, last |-> "none"]

\* Provide: a fresh context, its cancel stored in the provider, a goroutine
\* started; nothing of the provider's earlier state is looked at
Provide ==
    /\ ~crashed
    /\ Len(drivers) < MaxProvides
    /\ cancel' = Len(drivers) + 1
    /\ drivers' = Append(drivers, NewDriver)
    /\ UNCHANGED <<providerVars, initResult, stopResult, stops, crashed, ctxDone, pureVars>>

DriverIds == DOMAIN drivers

DriverUnchanged == UNCHANGED <<providerVars, hostVars, pureVars>>

\* time.NewTicker: panics for an interval <= 0; the panic is recovered by
\* the function Provide deferred and the goroutine ends
DriverStart(d) ==
    /\ ~crashed
    /\ drivers[d].pc = "start"
    /\ drivers' = IF pollInterval <= 0
                  THEN [drivers EXCEPT ![d].pc = "panicked"]
                  ELSE [drivers EXCEPT ![d].pc = "wait", ![d].ticker = "running"]
    /\ DriverUnchanged

\* the ticker puts a tick into its channel of capacity 1; a tick that finds
\* the channel full is dropped
Tick(d) ==
    /\ ~crashed
    /\ drivers[d].ticker = "running"
    /\ ~drivers[d].tick
    /\ drivers' = [drivers EXCEPT ![d].tick = TRUE]
    /\ DriverUnchanged

\* the loop over p.endpoints is over when no endpoint is left: mergeConfig
\* runs over configs, iterated in the given order, and the send on cfgChan
\* begins
AfterLoop(drv, order) ==
    IF drv.pc = "fetch" /\ drv.todo = {}
    THEN [drv EXCEPT !.pc = "emit", !.payload = <<mergeConfig(drv.configs, order)>>]
    ELSE drv

\* select takes the case <-ticker.C: a cycle starts, with the loop over
\* p.endpoints, which is over at once when there is no endpoint
SelectTick(d) ==
    /\ ~crashed
    /\ drivers[d].pc = "wait"
    /\ drivers[d].tick
    /\ drivers' = [drivers EXCEPT ![d] =
                      AfterLoop([drivers[d] EXCEPT !.pc = "fetch", !.tick = FALSE,
                                     !.todo = endpoints, !.resp = EmptyMap,
                                     !.sent = EmptyMap,
                                     !.configs = EmptyMap, !.last = "running"],
                                <<>>)]
    /\ DriverUnchanged

\* select takes the case <-ctx.Done(): loadConfiguration returns, the
\* deferred ticker.Stop runs and the ticker's channel is dropped
SelectDone(d) ==
    /\ ~crashed
    /\ drivers[d].pc = "wait"
    /\ d \in ctxDone
    /\ drivers' = [drivers EXCEPT ![d].pc = "done", ![d].ticker = "stopped",
                                  ![d].tick = FALSE]
    /\ DriverUnchanged

\* what one pass of the loop over p.endpoints does with the answer r of
\* node: an error is logged and the node skipped; config.HTTP.Routers of a
\* document without HTTP is a nil dereference, the panic unwinds through the
\* deferred ticker.Stop to the recover in Provide and the goroutine ends;
\* otherwise the fragment is transformed and stored under the node's name
FetchResult_NoSkipOnDecodeError(drv, node, r, pol, recognized, order) ==
    IF r.kind \notin {"ok", "decodeErr"}
    THEN [drv EXCEPT !.todo = @ \ {node}, !.resp = MapPut(@, node, r),
                     !.sent = MapPut(@, node, HttpGet(node))]
    ELSE IF ~r.config.hasHTTP
    THEN [drv EXCEPT !.pc = "panicked", !.ticker = "stopped", !.tick = FALSE,
                     !.todo = {}, !.last = "aborted",
                     !.resp = MapPut(@, node, r),
                     !.sent = MapPut(@, node, HttpGet(node)), !.configs = EmptyMap]
    ELSE [drv EXCEPT !.todo = @ \ {node}, !.resp = MapPut(@, node, r),
                     !.sent = MapPut(@, node, HttpGet(node)),
                     !.configs = MapPut(@, node,
                                     IF pol = "A" THEN PolicyA(r.config, recognized, order)
                                     ELSE PolicyB(r.config))]

FetchResult(drv, node, r, pol, recognized, order) ==
    IF r.kind # "ok"
    THEN [drv EXCEPT !.todo = @ \ {node}, !.resp = MapPut(@, node, r),
                     !.sent = MapPut(@, node, HttpGet(node))]
    ELSE IF ~r.config.hasHTTP
    THEN [drv EXCEPT !.pc = "panicked", !.ticker = "stopped", !.tick = FALSE,
                     !.todo = {}, !.last = "aborted",
                     !.resp = MapPut(@, node, r),
                     !.sent = MapPut(@, node, HttpGet(node)), !.configs = EmptyMap]
    ELSE [drv EXCEPT !.todo = @ \ {node}, !.resp = MapPut(@, node, r),
                     !.sent = MapPut(@, node, HttpGet(node)),
                     !.configs = MapPut(@, node,
                                     IF pol = "A" THEN PolicyA(r.config, recognized, order)
                                     ELSE PolicyB(r.config))]

\* one pass of the loop over p.endpoints, for a node the loop has not
\* reached yet; the order of the nodes is the map's
Fetch(d) ==
    /\ ~crashed
    /\ drivers[d].pc = "fetch"
    /\ \E node \in drivers[d].todo : \E r \in Responses(node) :
         \E order \in Perms(DOMAIN r.config.routers) :
            LET after == FetchResult(drivers[d], node, r, policy, entrypoints, order)
            IN \E merging \in Perms(DOMAIN after.configs) :
                  drivers' = [drivers EXCEPT ![d] = AfterLoop(after, merging)]
    /\ DriverUnchanged

\* the sink receives from cfgChan: the send completes and the loop goes
\* back to select
Receive(d) ==
    /\ ~crashed
    /\ drivers[d].pc = "emit"
    /\ drivers' = [drivers EXCEPT ![d].pc = "wait", ![d].payload = <<>>,
                                  ![d].resp = EmptyMap, ![d].sent = EmptyMap,
                                  ![d].configs = EmptyMap,
                                  ![d].last = "emitted"]
    /\ DriverUnchanged

----------------------------------------------------------------------------
(* Provider.Stop *)

\* p.cancel(): a call of a nil func panics in the caller; a CancelFunc may
\* be called any number of times
Stop ==
    /\ ~crashed
    /\ stops < MaxStops
    /\ stops' = stops + 1
    /\ IF cancel = 0
       THEN /\ stopResult' = "panic"
            /\ crashed' = TRUE
            /\ UNCHANGED ctxDone
       ELSE /\ stopResult' = "ok"
            /\ ctxDone' = ctxDone \cup {cancel}
            /\ UNCHANGED crashed
    /\ UNCHANGED <<providerVars, cancel, initResult, drivers, pureVars>>

----------------------------------------------------------------------------
(* The provider and its host *)

\* New: the provider as built from a static configuration that parses
Init ==
    /\ policy \in {"A", "B"}
    /\ pollInterval \in Durations
    /\ pollTimeout \in Durations
    /\ endpoints \in EndpointSets
    /\ entrypoints \in IF policy = "A" THEN RecognizedSets ELSE {{}}
    /\ cancel = 0
    /\ initResult = "none"
    /\ stopResult = "none"
    /\ stops = 0
    /\ crashed = FALSE
    /\ ctxDone = {}
    /\ drivers = <<>>
    /\ xf = <<>>
    /\ mg = <<>>
    /\ rw = <<>>
    /\ mj = <<>>

DriverStep(d) ==
    \/ DriverStart(d)
    \/ SelectTick(d)
    \/ SelectDone(d)
    \/ Fetch(d)

Next ==
    \/ InitCall
    \/ Provide
    \/ Stop
    \/ \E d \in DriverIds : DriverStep(d)
    \/ \E d \in DriverIds : Tick(d)
    \/ \E d \in DriverIds : Receive(d)

Spec == Init /\ [][Next]_vars

----------------------------------------------------------------------------
(* One driver by itself: the provider after a single Provide, polling both  *)
(* nodes                                                                    *)

InitCycle ==
    /\ policy \in {"A", "B"}
    /\ pollInterval = 1
    /\ pollTimeout = 1
    /\ endpoints = Nodes
    /\ entrypoints \in IF policy = "A" THEN RecognizedSets ELSE {{}}
    /\ cancel = 1
    /\ initResult = "none"
    /\ stopResult = "none"
    /\ stops = 0
    /\ crashed = FALSE
    /\ ctxDone = {}
    /\ drivers = <<NewDriver>>
    /\ xf = <<>>
    /\ mg = <<>>
    /\ rw = <<>>
    /\ mj = <<>>

NextCycle ==
    \/ Stop
    \/ \E d \in DriverIds : DriverStep(d)
    \/ \E d \in DriverIds : Tick(d)
    \/ \E d \in DriverIds : Receive(d)

SpecCycle == InitCycle /\ [][NextCycle]_vars

----------------------------------------------------------------------------
(* The provider's own state while one of the functions is run by itself *)

Idle ==
    /\ pollInterval = 1
    /\ pollTimeout = 1
    /\ endpoints = Nodes
    /\ cancel = 0
    /\ initResult = "none"
    /\ stopResult = "none"
    /\ stops = 0
    /\ crashed = FALSE
    /\ ctxDone = {}
    /\ drivers = <<>>

IdleUnchanged == UNCHANGED <<providerVars, hostVars, drivers>>

SeqsUpTo(S, n) == UNION {[1..k -> S] : k \in 0..n}

MapsInto(K, V) == UNION {[D -> V] : D \in SUBSET K}

----------------------------------------------------------------------------
(* The policy A transform run on any fragment, one loop pass at a time, and *)
(* then on its own output                                                   *)

RouterNames == {"r1", "r2"}

ServiceNames == {"s1", "s2"}

MwNames == {<<"auth">>, <<"gzip">>}

EntryPointNames == {"web", "websecure", "internal"}

\* the entry-point lists a router may declare: any names, in any order
EntryPointLists == UNION {Perms(S) : S \in SUBSET EntryPointNames}

Routers ==
    {MkRouter(eps, svc, mws, "rule") :
        eps \in EntryPointLists,
        svc \in ServiceNames,
        mws \in SeqsUpTo(MwNames, MaxMiddlewareRefs)}

\* the middlewares a fragment defines: all that can be referenced, or not
\* all of them
MiddlewareSets == {MwNames, {<<"auth">>}}

\* a decoded fragment with the given routers; every service is defined
Fragment(rs, ms) == MkConfig(rs, [sv \in ServiceNames |-> "def"], [m \in ms |-> "def"])

XfStart(c) == [input |-> c, st |-> TransformStart(c), todo |-> DOMAIN c.routers,
               order |-> <<>>, phase |-> "routers", output |-> NilHTTP,
               again |-> NilHTTP]

InitPolicyA ==
    /\ Idle
    /\ policy = "A"
    /\ entrypoints \in {{"web"}, {"web", "websecure"}}
    /\ \E rs \in MapsInto(RouterNames, Routers), ms \in MiddlewareSets :
          xf = XfStart(Fragment(rs, ms))
    /\ mg = <<>>
    /\ rw = <<>>
    /\ mj = <<>>

\* the loop over config.HTTP.Routers reaches a router not yet visited; the
\* order is the map's
XfVisit ==
    /\ xf.phase = "routers"
    /\ \E k \in xf.todo :
          xf' = [xf EXCEPT !.st = VisitRouter(xf.st, k, entrypoints),
                           !.todo = @ \ {k}, !.order = Append(@, k)]
    /\ UNCHANGED <<mg, rw, mj>>
    /\ IdleUnchanged

\* the routers are exhausted: the deletions, and the fragment is stored
XfDelete ==
    /\ xf.phase = "routers"
    /\ xf.todo = {}
    /\ xf' = [xf EXCEPT !.phase = "done", !.output = DeleteMarked(xf.st)]
    /\ UNCHANGED <<mg, rw, mj>>
    /\ IdleUnchanged

\* the transform run once more, on the fragment it has just produced, its
\* routers visited in any order
XfReapply ==
    /\ xf.phase = "done"
    /\ \E order \in Perms(DOMAIN xf.output.routers) :
          xf' = [xf EXCEPT !.phase = "again",
                           !.again = PolicyA(xf.output, entrypoints, order)]
    /\ UNCHANGED <<mg, rw, mj>>
    /\ IdleUnchanged

NextPolicyA == XfVisit \/ XfDelete \/ XfReapply

SpecPolicyA == InitPolicyA /\ [][NextPolicyA]_vars

----------------------------------------------------------------------------
(* mergeConfig run on any map of fragments, one fragment at a time *)

FragmentIds == 1..MaxFragments

\* the names a fragment defines: some routers, services and middlewares
Shapes == [routers : SUBSET RouterNames, services : SUBSET ServiceNames,
           middlewares : SUBSET {<<"auth">>}]

\* the fragment of that shape the node with key i contributes: every
\* definition in it carries i, so that the merged configuration shows whose
\* definition it kept
MergeFragment(i, shape) ==
    MkConfig([r \in shape.routers |-> MkRouter(<<"web">>, "s1", <<>>, i)],
             [sv \in shape.services |-> i],
             [m \in shape.middlewares |-> i])

MgStart(configs) == [configs |-> configs, todo |-> DOMAIN configs, order |-> <<>>,
                     newConfig |-> EmptyConfig, phase |-> "fragments"]

InitMerge ==
    /\ Idle
    /\ policy = "A"
    /\ entrypoints = {"web"}
    /\ \E D \in SUBSET FragmentIds : \E shapes \in [D -> Shapes] :
          mg = MgStart([i \in D |-> MergeFragment(i, shapes[i])])
    /\ xf = <<>>
    /\ rw = <<>>
    /\ mj = <<>>

\* the loop over configs reaches a fragment not yet visited; the order is
\* the map's
MgVisit ==
    /\ mg.phase = "fragments"
    /\ \E i \in mg.todo :
          mg' = [mg EXCEPT !.newConfig = MergeOne(mg.newConfig, mg.configs[i]),
                           !.todo = @ \ {i}, !.order = Append(@, i)]
    /\ UNCHANGED <<xf, rw, mj>>
    /\ IdleUnchanged

MgReturn ==
    /\ mg.phase = "fragments"
    /\ mg.todo = {}
    /\ mg' = [mg EXCEPT !.phase = "done"]
    /\ UNCHANGED <<xf, rw, mj>>
    /\ IdleUnchanged

NextMerge == MgVisit \/ MgReturn

SpecMerge == InitMerge /\ [][NextMerge]_vars

----------------------------------------------------------------------------
(* The policy B rewrite run on any reference, and on its own output *)

Tokens == {"auth", "@", "http", "plugin-multi-", "-provider"}

InitPolicyB ==
    /\ Idle
    /\ policy = "B"
    /\ entrypoints = {}
    /\ \E m \in SeqsUpTo(Tokens, MaxRefTokens) :
          rw = [ref |-> m, once |-> m, twice |-> m, passes |-> 0]
    /\ xf = <<>>
    /\ mg = <<>>
    /\ mj = <<>>

RwApply ==
    /\ rw.passes = 0
    /\ rw' = [rw EXCEPT !.once = RewriteRef(rw.ref), !.twice = RewriteRef(rw.ref),
                        !.passes = 1]
    /\ UNCHANGED <<xf, mg, mj>>
    /\ IdleUnchanged

RwReapply ==
    /\ rw.passes = 1
    /\ rw' = [rw EXCEPT !.twice = RewriteRef(rw.once), !.passes = 2]
    /\ UNCHANGED <<xf, mg, mj>>
    /\ IdleUnchanged

NextPolicyB == RwApply \/ RwReapply

SpecPolicyB == InitPolicyB /\ [][NextPolicyB]_vars

----------------------------------------------------------------------------
(* ConfigMarshaler.MarshalJSON run on any value of the type *)

\* json.Marshal of a configuration: an object that has the member "http"
\* when the HTTP section is there, and in it a member for each of the
\* three maps that is not empty
JsonMarshal(config) ==
    IF ~config.hasHTTP THEN <<"{", "}">>
    ELSE <<"{", "http", "{">> \o
         (IF DOMAIN config.routers = {} THEN <<>>
          ELSE <<"routers", config.routers>>) \o
         (IF DOMAIN config.middlewares = {} THEN <<>>
          ELSE <<"middlewares", config.middlewares>>) \o
         (IF DOMAIN config.services = {} THEN <<>>
          ELSE <<"services", config.services>>) \o
         <<"}", "}">>

\* a ConfigMarshaler: its field config is nil or points at a configuration
NilMarshaler == [isNil |-> TRUE, config |-> NilHTTP]

Marshaler(config) == [isNil |-> FALSE, config |-> config]

\* MarshalJSON without its test for nil: json.Marshal of a nil pointer
MarshalJSON_NoNilCheck(c) ==
    [bytes |-> IF ~c.isNil THEN JsonMarshal(c.config) ELSE <<"null">>, err |-> "nil"]

MarshalJSON(c) ==
    IF ~c.isNil
    THEN [bytes |-> JsonMarshal(c.config), err |-> "nil"]
    ELSE [bytes |-> <<>>, err |-> "unable to serialize configuration"]

InitMarshal ==
    /\ Idle
    /\ policy \in {"A", "B"}
    /\ entrypoints = {}
    /\ \E c \in {NilMarshaler} \cup
                {Marshaler(MergeFragment(i, shape)) : i \in FragmentIds, shape \in Shapes}
                \cup {Marshaler(NilHTTP)} :
          mj = [c |-> c, phase |-> "call", out |-> [bytes |-> <<>>, err |-> "nil"]]
    /\ xf = <<>>
    /\ mg = <<>>
    /\ rw = <<>>

MjReturn ==
    /\ mj.phase = "call"
    /\ mj' = [mj EXCEPT !.phase = "done", !.out = MarshalJSON(mj.c)]
    /\ UNCHANGED <<xf, mg, rw>>
    /\ IdleUnchanged

NextMarshal == MjReturn

SpecMarshal == InitMarshal /\ [][NextMarshal]_vars

----------------------------------------------------------------------------
(* The scheduling the Go runtime gives a started goroutine: a driver that   *)
(* can take a step takes one. Nothing makes the host call Stop or the sink  *)
(* receive.                                                                 *)

Fairness == \A d \in 1..MaxProvides : WF_vars(d \in DriverIds /\ DriverStep(d))

LiveSpec == Init /\ [][Next]_vars /\ Fairness

----------------------------------------------------------------------------
(* Properties *)

ValidationErrors == {"poll interval must be greater than 0",
                     "poll timeout must be greater than 0",
                     "must provide at least 1 endpoint",
                     "must specify at least one entrypoint"}

InitValid ==
    /\ pollInterval > 0
    /\ pollTimeout > 0
    /\ endpoints # {}
    /\ policy = "A" => entrypoints # {}

\* C1: Init returns nil exactly when the poll interval and the poll timeout
\* are positive, an endpoint is configured and, under policy A, an entry
\* point is recognized; otherwise it returns a validation error; and a call
\* of Init starts no goroutine.
C1_InitSucceedsExactlyWhenValid ==
    /\ [](initResult # "none" =>
            /\ InitValid => initResult = "ok"
            /\ ~InitValid => initResult \in ValidationErrors)
    /\ [][initResult' # initResult => drivers' = drivers]_vars

C1_Witness ==
    /\ policy = "A"
    /\ pollInterval > 0 /\ pollTimeout > 0 /\ endpoints # {}
    /\ entrypoints = {}
    /\ initResult = "must specify at least one entrypoint"
    /\ drivers = <<>>

\* C2: Stop never panics, whether or not Provide was called before it, and a
\* Stop made when the current context is already cancelled changes nothing.
C2_StopNeverPanicsAndIsIdempotent ==
    /\ [](stopResult # "panic" /\ ~crashed)
    /\ [][(stops' = stops + 1 /\ cancel \in ctxDone) =>
             (ctxDone' = ctxDone /\ drivers' = drivers)]_vars

Terminated(d) ==
    /\ d \in DriverIds
    /\ drivers[d].pc \in {"done", "panicked"}
    /\ drivers[d].ticker # "running"

\* C3: once Stop has cancelled the context of a started driver, that driver
\* eventually terminates with its ticker stopped, whatever it was doing.
C3_StopTerminatesDriver ==
    \A d \in 1..MaxProvides : (d \in DriverIds /\ d \in ctxDone) ~> Terminated(d)

InCycle(d) == drivers[d].pc \in {"fetch", "emit"}

\* C4: at most one cycle of the provider is in progress at any time, and a
\* driver starts a cycle only when the cycle it ran before, if any, has been
\* emitted.
C4_CyclesNeverOverlap ==
    /\ [](Cardinality({d \in DriverIds : InCycle(d)}) <= 1)
    /\ [][\A d \in DriverIds :
             (~InCycle(d) /\ drivers'[d].last = "running") =>
                drivers[d].last \in {"none", "emitted"}]_vars

Kinds == {"routers", "services", "middlewares"}

\* what the variant in use makes of a decoded fragment
Transformed(c) ==
    IF policy = "A"
    THEN PolicyA(c, entrypoints, CHOOSE o \in Perms(DOMAIN c.routers) : TRUE)
    ELSE PolicyB(c)

Succeeded(drv) == {n \in DOMAIN drv.resp : drv.resp[n].kind = "ok"}

\* C5: a cycle is not aborted by a failed request, read or decode; when the
\* cycle reaches the send, every endpoint has been asked and the merged
\* configuration holds exactly the names of the transformed fragments of the
\* endpoints that answered, each with the definition of one of them.
C5_FailedEndpointsAreSkipped ==
    \A d \in DriverIds :
       LET drv == drivers[d]
           ok == Succeeded(drv)
       IN /\ drv.last = "aborted" =>
                \E n \in ok : ~drv.resp[n].config.hasHTTP
          /\ drv.pc = "emit" =>
                /\ DOMAIN drv.resp = endpoints
                /\ \A kind \in Kinds :
                      LET merged == drv.payload[1][kind]
                      IN /\ DOMAIN merged =
                               UNION {DOMAIN Transformed(drv.resp[n].config)[kind] : n \in ok}
                         /\ \A k \in DOMAIN merged : \E n \in ok :
                               /\ k \in DOMAIN Transformed(drv.resp[n].config)[kind]
                               /\ merged[k] = Transformed(drv.resp[n].config)[kind][k]

C5_Witness ==
    \E d \in DriverIds :
       /\ drivers[d].pc = "emit"
       /\ \E a, b \in DOMAIN drivers[d].resp :
             /\ drivers[d].resp[a].kind = "connErr"
             /\ drivers[d].resp[b].kind = "ok"
             /\ DOMAIN drivers[d].payload[1].routers =
                   DOMAIN Transformed(drivers[d].resp[b].config).routers
             /\ DOMAIN drivers[d].payload[1].routers # {}

\* the key of the first fragment, in the order the loop took, that defines
\* the name
FirstWriter(kind, name) ==
    LET at == CHOOSE i \in DOMAIN mg.order :
                 /\ name \in DOMAIN mg.configs[mg.order[i]][kind]
                 /\ \A j \in 1..(i - 1) : name \notin DOMAIN mg.configs[mg.order[j]][kind]
    IN mg.order[at]

\* C6: the configuration mergeConfig returns has, for routers, services and
\* middlewares alike, the union of the fragments' names, each name with the
\* definition of the fragment the loop reached first.
C6_MergeIsFirstWriterWins ==
    mg.phase = "done" =>
       /\ mg.newConfig.hasHTTP
       /\ \A kind \in Kinds :
             /\ DOMAIN mg.newConfig[kind] =
                   UNION {DOMAIN mg.configs[i][kind] : i \in DOMAIN mg.configs}
             /\ \A name \in DOMAIN mg.newConfig[kind] :
                   mg.newConfig[kind][name] = mg.configs[FirstWriter(kind, name)][kind][name]

C6_Witness ==
    /\ mg.phase = "done"
    /\ mg.order = <<2, 1>>
    /\ "s1" \in DOMAIN mg.configs[1].services
    /\ "s1" \in DOMAIN mg.configs[2].services
    /\ mg.configs[1].services["s1"] # mg.configs[2].services["s1"]
    /\ mg.newConfig.services["s1"] = mg.configs[2].services["s1"]

\* the entry points of a router that the provider recognizes, in the
\* router's order
Recognized(eps) == SelectSeq(eps, LAMBDA e : e \in entrypoints)

Surviving == {k \in DOMAIN xf.input.routers : Recognized(xf.input.routers[k].entryPoints) # <<>>}

Deleted == DOMAIN xf.input.routers \ Surviving

\* C7: after the transform a router with a recognized entry point is still
\* there, unchanged but for its entry points, which are the recognized ones
\* in their original order; a router with none is gone and so is the
\* service it named.
C7_EntryPointFiltering ==
    xf.phase = "done" =>
       /\ \A k \in Surviving :
             /\ k \in DOMAIN xf.output.routers
             /\ xf.output.routers[k] =
                   [xf.input.routers[k] EXCEPT
                       !.entryPoints = Recognized(xf.input.routers[k].entryPoints)]
       /\ \A k \in Deleted :
             /\ k \notin DOMAIN xf.output.routers
             /\ xf.input.routers[k].service \notin DOMAIN xf.output.services

C7_Witness ==
    /\ xf.phase = "done"
    /\ entrypoints = {"web"}
    /\ DOMAIN xf.input.routers = {"r1", "r2"}
    /\ xf.input.routers["r1"].entryPoints = <<"web", "websecure">>
    /\ xf.input.routers["r1"].service = "s1"
    /\ xf.input.routers["r2"].entryPoints = <<"internal">>
    /\ xf.input.routers["r2"].service = "s2"
    /\ DOMAIN xf.output.routers = {"r1"}
    /\ xf.output.routers["r1"].entryPoints = <<"web">>
    /\ DOMAIN xf.output.services = {"s1"}

RefsOf(ks) == UNION {SeqToSet(xf.input.routers[k].middlewares) : k \in ks}

\* C8: after the transform, in whatever order the routers were visited, a
\* middleware of the fragment that a surviving router references is still
\* there, one that only deleted routers reference is gone, and so every
\* reference of a surviving router that resolved before resolves still.
C8_MiddlewareRetention ==
    xf.phase = "done" =>
       /\ \A m \in DOMAIN xf.input.middlewares :
             /\ m \in RefsOf(Surviving) => m \in DOMAIN xf.output.middlewares
             /\ m \in RefsOf(Deleted) \ RefsOf(Surviving) =>
                   m \notin DOMAIN xf.output.middlewares
       /\ \A k \in DOMAIN xf.output.routers :
             \A m \in SeqToSet(xf.output.routers[k].middlewares) :
                m \in DOMAIN xf.input.middlewares => m \in DOMAIN xf.output.middlewares

C8_Witness ==
    /\ xf.phase = "done"
    /\ xf.order = <<"r1", "r2">>
    /\ "r1" \in Surviving
    /\ "r2" \in Deleted
    /\ xf.input.routers["r1"].middlewares = << <<"auth">> >>
    /\ xf.input.routers["r2"].middlewares = << <<"auth">> >>
    /\ <<"auth">> \in DOMAIN xf.output.middlewares

\* C9: the rewrite turns auth@http into auth@plugin-multi-http-provider, and
\* the rewrite of a rewritten reference is that reference.
C9_RewriteIsIdempotent ==
    /\ (rw.passes >= 1 /\ rw.ref = AuthHttp) => rw.once = <<"auth">> \o PluginTag
    /\ rw.passes = 2 => rw.twice = rw.once

\* C10: no cycle of a driver ends without its payload handed to the sink:
\* a cycle in progress ends only by the sink receiving the one payload of
\* that cycle, and when no endpoint answered that payload is the empty
\* configuration.
C10_OnePayloadPerCycle ==
    /\ [](\A d \in DriverIds :
            /\ drivers[d].last # "aborted"
            /\ (drivers[d].pc = "emit" /\ Succeeded(drivers[d]) = {}) =>
                  drivers[d].payload = <<EmptyConfig>>)
    /\ [][\A d \in DriverIds :
             (InCycle(d) /\ ~InCycle(d)') =>
                (drivers[d].pc = "emit" /\ Len(drivers[d].payload) = 1 /\
                 drivers'[d].last = "emitted")]_vars

\* C11: a driver that has begun to hand a payload to the sink eventually
\* leaves the emit step, back to waiting or to its end, also when the sink
\* never receives.
C11_SlowSinkDoesNotStallDriver ==
    \A d \in 1..MaxProvides :
       (d \in DriverIds /\ drivers[d].pc = "emit") ~>
          (d \in DriverIds /\ drivers[d].pc \in {"wait", "done"})

\* C12: a driver whose context Stop has cancelled begins no cycle: from the
\* select it can only return, also when a tick is waiting in the ticker's
\* channel.
C12_NoCycleAfterStop ==
    [][\A d \in DriverIds :
          (d \in ctxDone /\ drivers[d].pc = "wait") => ~InCycle(d)']_vars

\* C13: mergeConfig of no fragment returns a configuration whose HTTP
\* section is there, with routers, services and middlewares that are maps
\* without a name in them.
C13_MergeOfNothingIsEmptyNotAbsent ==
    (mg.phase = "done" /\ DOMAIN mg.configs = {}) =>
       /\ mg.newConfig.hasHTTP
       /\ \A kind \in Kinds : DOMAIN mg.newConfig[kind] = {}

C13_Witness ==
    /\ mg.phase = "done"
    /\ DOMAIN mg.configs = {}
    /\ mg.order = <<>>
    /\ mg.newConfig = MkConfig(EmptyMap, EmptyMap, EmptyMap)

\* C14: the transform applied to a fragment it has already transformed,
\* with the same recognized entry points, returns that fragment: routers,
\* entry-point lists, services and middlewares are what they were.
C14_PolicyAIsIdempotent ==
    xf.phase = "again" => xf.again = xf.output

C14_Witness ==
    /\ xf.phase = "again"
    /\ entrypoints = {"web"}
    /\ DOMAIN xf.input.routers = {"r1", "r2"}
    /\ xf.input.routers["r1"].entryPoints = <<"websecure", "web">>
    /\ xf.input.routers["r2"].entryPoints = <<"internal">>
    /\ xf.input.routers["r2"].middlewares = << <<"auth">> >>
    /\ <<"auth">> \in DOMAIN xf.input.middlewares
    /\ DOMAIN xf.output.routers = {"r1"}
    /\ xf.output.routers["r1"].entryPoints = <<"web">>
    /\ <<"auth">> \notin DOMAIN xf.output.middlewares
    /\ xf.again = xf.output

\* C15: an endpoint that answered with a status outside 200..299 has no
\* fragment among those the cycle merges, whatever its body was.
C15_ErrorStatusIsAFetchError ==
    \A d \in DriverIds :
       drivers[d].pc = "emit" =>
          \A n \in DOMAIN drivers[d].resp :
             drivers[d].resp[n].status \notin 200..299 =>
                n \notin DOMAIN drivers[d].configs

\* C16: a request made for an endpoint that has headers configured carries
\* each of them with its configured value.
C16_RequestsCarryConfiguredHeaders ==
    \A d \in DriverIds : \A n \in DOMAIN drivers[d].sent :
       \A h \in DOMAIN Headers(n) :
          /\ h \in DOMAIN drivers[d].sent[n].headers
          /\ drivers[d].sent[n].headers[h] = Headers(n)[h]

\* C17: MarshalJSON of a value whose configuration is there returns bytes
\* and no error; of a value whose configuration is nil it returns an error,
\* not an empty result without one.
C17_MarshalFailsExplicitlyWithoutConfig ==
    mj.phase = "done" =>
       /\ ~mj.c.isNil => (mj.out.err = "nil" /\ mj.out.bytes = JsonMarshal(mj.c.config)
                          /\ mj.out.bytes # <<>>)
       /\ mj.c.isNil => mj.out.err = "unable to serialize configuration"

C17_Witness ==
    /\ mj.phase = "done"
    /\ mj.c.isNil
    /\ mj.out.err # "nil"
    /\ mj.out.bytes = <<>>

\* C18: when every router of the fragment names a service the fragment
\* defines, every router the transform leaves names a service the
\* transformed fragment defines.
C18_ServiceResolutionPreserved ==
    (xf.phase = "done" /\
     \A k \in DOMAIN xf.input.routers :
        xf.input.routers[k].service \in DOMAIN xf.input.services) =>
       \A k \in DOMAIN xf.output.routers :
          xf.output.routers[k].service \in DOMAIN xf.output.services

\* C19: nothing an endpoint answers ends a driver: whatever the answer, a
\* driver in the loop over the endpoints goes on with the loop or to the
\* send of the cycle's payload.
C19_NoBodyKillsDriver ==
    [][\A d \in DriverIds :
          drivers[d].pc = "fetch" => drivers'[d].pc \in {"fetch", "emit"}]_vars

Alive(d) == drivers[d].pc \notin {"done", "panicked"}

\* C20: at most one driver of the provider is alive at any time, and a Stop
\* made after a Provide cancels the context of every driver started so far.
C20_SingleDriverPerProvider ==
    /\ [](Cardinality({d \in DriverIds : Alive(d)}) <= 1)
    /\ [][(stops' = stops + 1 /\ cancel # 0) => DriverIds \subseteq ctxDone']_vars

====
